---------------------------- MODULE Spec2Model ----------------------------
(***************************************************************************)
(* Ledger, compliance gate and request scheduling of the stablecoin        *)
(* protocol service (backend/routers/stablecoin.py and                     *)
(* ai_engine/optimizer/yield_optimizer.py).                                *)
(*                                                                         *)
(* Units.  Amounts and balances are whole stablecoin units (the code uses  *)
(* finite floats; every value used here is exactly representable).         *)
(* collateral_ratio is kept in hundredths (1.5 is 150), APYs in            *)
(* thousandths (0.045 is 45).  Characters are their ASCII codes, strings   *)
(* that the code slices are sequences of characters.                       *)
(***************************************************************************)
EXTENDS Integers, Sequences, FiniteSets, TLC

VARIABLES
    wallets_db,     \* stablecoin.py:48  address -> Wallet (a function on the known addresses)
    positions_db,   \* stablecoin.py:49  position_id -> YieldPosition
    last,           \* the last request served and the response it got
    nreq,           \* number of requests served so far
    tasks,          \* request handlers in flight on the event loop (coroutines)
    running,        \* the coroutine the event loop is executing, 0 when idle
    credited,       \* per address: sum of the amounts of the mints that succeeded
    debited,        \* per address: sum of the amounts of the redeems that succeeded
    opened,         \* history: the <<address, position_id>> pairs of the deposits served
    registry,       \* yield_optimizer.py:16  YieldOptimizer.protocols, in insertion order
    bridge_fees,    \* cross_chain.py:12  CrossChainYieldRouter.bridge_fees, in cents
    call,           \* the engine call made: its name and arguments
    result          \* what the engine call returned

ledgerVars == <<wallets_db, positions_db>>
loopVars   == <<tasks, running, credited, debited>>
engineVars == <<registry, bridge_fees, call, result>>
vars       == <<wallets_db, positions_db, last, nreq, tasks, running, credited,
               debited, opened, registry, bridge_fees, call, result>>

---------------------------------------------------------------------------
(* Bounds of the model *)

MaxRequests == 4    \* requests served in one run
MaxRegistryLen == 2 \* protocols in a registry other than the built-in one
MaxPositions == 2   \* entries of a positions mapping

---------------------------------------------------------------------------
(* Inputs *)

\* "0xaaaaaa1" and "0xaaaaaa2": two addresses with the same first 8 characters
Addr1 == <<48, 120, 97, 97, 97, 97, 97, 97, 49>>
Addr2 == <<48, 120, 97, 97, 97, 97, 97, 97, 50>>
Addresses == {Addr1, Addr2}

Tiers          == {"basic", "full", "gold"}     \* "gold" is not a recognized tier
Amounts        == {50, 100, 10001}              \* MintRequest/RedeemRequest amounts (gt=0)
DepositAmounts == {0, 100}                      \* deposit_yield takes any float
LimitAmounts   == {10000, 10001, 1000000, 1000001}
Ratios         == {120, 150}                    \* collateral ratios 1.2 and 1.5
Protocols      == {"aave", "nosuch"}
TaskIds        == {1, 2}                        \* requests in flight at once
LoopAmounts    == {50, 100}                     \* amounts of the requests in flight
Suffixes       == {1, 2}                        \* outcomes of the identifier generator
RegistryIds    == {"aave", "compound", "yearn"} \* protocol identifiers of a registry
RegistryApys   == {45, 55, 65}                  \* 4.5%, 5.5%, 6.5%
TokenSets      == {{"USDC", "DAI"}, {"DAI"}}
QueryTokens    == {"USDC", "FRAX"}
QueryAmounts   == {0, 10000}
PositionKeys   == {"aave", "yearn", "nosuch"}   \* keys of a positions mapping
PositionAmounts == {0, 1000}
RouterChains   == {"ethereum", "arbitrum", "base", "optimism", "solana"}
RouterAmounts  == {-10000, 0, 100, 3650, 10000} \* USD

---------------------------------------------------------------------------
(* Program constants *)

MinCollateralRatio == 150       \* 1.5
BasicMaxTransaction == 10000
FullMaxTransaction == 1000000
PrefixLen == 8

\* KYCMiddleware.tier_requirements[tier]["max_transaction"]
tier_requirements ==
    [t \in {"basic", "full"} |->
        IF t = "basic" THEN BasicMaxTransaction ELSE FullMaxTransaction]

\* Wallet(address=address): the field defaults of the model class
Wallet(address) ==
    [address |-> address, kyc_verified |-> FALSE, kyc_tier |-> "none",
     balance |-> 0, collateral_ratio |-> 0]

\* YieldOptimizer.protocols[p]["supply_apy"]
supply_apy ==
    [p \in {"aave", "compound", "curve", "yearn"} |->
        CASE p = "aave" -> 45 [] p = "compound" -> 38
          [] p = "curve" -> 25 [] p = "yearn" -> 65]

get_apy(protocol) ==
    IF protocol \in DOMAIN supply_apy THEN supply_apy[protocol] ELSE 0

---------------------------------------------------------------------------
(* Responses *)

NoResponse ==
    [op |-> "none", addr |-> << >>, amount |-> 0, arg |-> "", status |-> "",
     ret |-> 0, ret2 |-> 0, pid |-> << >>, again |-> FALSE]

Response(op, addr, amount, arg, status, ret, ret2, pid) ==
    [op |-> op, addr |-> addr, amount |-> amount, arg |-> arg,
     status |-> status, ret |-> ret, ret2 |-> ret2, pid |-> pid,
     again |-> (last.op = op /\ last.addr = addr /\ last.amount = amount
                /\ last.arg = arg)]

\* wallets_db with one field of one wallet replaced
SetField(db, a, f, v) == [db EXCEPT ![a] = [@ EXCEPT ![f] = v]]

\* wallets_db[a] = w, adding the key when it is new
Put(db, a, w) == [x \in DOMAIN db \cup {a} |-> IF x = a THEN w ELSE db[x]]

Served == nreq < MaxRequests /\ nreq' = nreq + 1

---------------------------------------------------------------------------
(* Request handlers of backend/routers/stablecoin.py, each run to          *)
(* completion                                                              *)

\* create_wallet storing a fresh Wallet on every call
create_wallet_reset(address) ==
    /\ Served
    /\ wallets_db' = Put(wallets_db, address, Wallet(address))
    /\ last' = Response("create_wallet", address, 0, "", "ok", 0, 0, <<>>)
    /\ UNCHANGED <<positions_db, loopVars, opened, engineVars>>

create_wallet(address) ==
    /\ Served
    /\ wallets_db' = IF address \notin DOMAIN wallets_db
                     THEN Put(wallets_db, address, Wallet(address))
                     ELSE wallets_db
    /\ last' = Response("create_wallet", address, 0, "", "ok", 0, 0, <<>>)
    /\ UNCHANGED <<positions_db, loopVars, opened, engineVars>>

\* mint_stablecoin testing the collateral ratio before the KYC flag
mint_collateral_first(a, amount) ==
    /\ Served
    /\ IF a \notin DOMAIN wallets_db
       THEN /\ last' = Response("mint", a, amount, "", "NotFound", 0, 0, <<>>)
            /\ UNCHANGED wallets_db
       ELSE IF wallets_db[a].collateral_ratio < MinCollateralRatio
       THEN /\ last' = Response("mint", a, amount, "", "InsufficientCollateral", 0, 0, <<>>)
            /\ UNCHANGED wallets_db
       ELSE IF ~wallets_db[a].kyc_verified
       THEN /\ last' = Response("mint", a, amount, "", "ComplianceRequired", 0, 0, <<>>)
            /\ UNCHANGED wallets_db
       ELSE /\ wallets_db' = SetField(wallets_db, a, "balance",
                                      wallets_db[a].balance + amount)
            /\ last' = Response("mint", a, amount, "", "ok",
                                wallets_db[a].balance + amount, 0, <<>>)
    /\ UNCHANGED <<positions_db, loopVars, opened, engineVars>>

\* mint_stablecoin without the collateral test
mint_no_collateral_check(a, amount) ==
    /\ Served
    /\ IF a \notin DOMAIN wallets_db
       THEN /\ last' = Response("mint", a, amount, "", "NotFound", 0, 0, <<>>)
            /\ UNCHANGED wallets_db
       ELSE IF ~wallets_db[a].kyc_verified
       THEN /\ last' = Response("mint", a, amount, "", "ComplianceRequired", 0, 0, <<>>)
            /\ UNCHANGED wallets_db
       ELSE /\ wallets_db' = SetField(wallets_db, a, "balance",
                                      wallets_db[a].balance + amount)
            /\ last' = Response("mint", a, amount, "", "ok",
                                wallets_db[a].balance + amount, 0, <<>>)
    /\ UNCHANGED <<positions_db, loopVars, opened, engineVars>>

\* mint_stablecoin registering an address it does not know, as verify_kyc does
mint_registers(a, amount) ==
    /\ Served
    /\ IF a \notin DOMAIN wallets_db
       THEN /\ last' = Response("mint", a, amount, "", "ComplianceRequired", 0, 0, <<>>)
            /\ wallets_db' = Put(wallets_db, a, Wallet(a))
       ELSE IF ~wallets_db[a].kyc_verified
       THEN /\ last' = Response("mint", a, amount, "", "ComplianceRequired", 0, 0, <<>>)
            /\ UNCHANGED wallets_db
       ELSE IF wallets_db[a].collateral_ratio < MinCollateralRatio
       THEN /\ last' = Response("mint", a, amount, "", "InsufficientCollateral", 0, 0, <<>>)
            /\ UNCHANGED wallets_db
       ELSE /\ wallets_db' = SetField(wallets_db, a, "balance",
                                      wallets_db[a].balance + amount)
            /\ last' = Response("mint", a, amount, "", "ok",
                                wallets_db[a].balance + amount, 0, <<>>)
    /\ UNCHANGED <<positions_db, loopVars, opened, engineVars>>

mint_stablecoin(a, amount) ==
    /\ Served
    /\ IF a \notin DOMAIN wallets_db
       THEN /\ last' = Response("mint", a, amount, "", "NotFound", 0, 0, <<>>)
            /\ UNCHANGED wallets_db
       ELSE IF ~wallets_db[a].kyc_verified
       THEN /\ last' = Response("mint", a, amount, "", "ComplianceRequired", 0, 0, <<>>)
            /\ UNCHANGED wallets_db
       ELSE IF wallets_db[a].collateral_ratio < MinCollateralRatio
       THEN /\ last' = Response("mint", a, amount, "", "InsufficientCollateral", 0, 0, <<>>)
            /\ UNCHANGED wallets_db
       ELSE /\ wallets_db' = SetField(wallets_db, a, "balance",
                                      wallets_db[a].balance + amount)
            /\ last' = Response("mint", a, amount, "", "ok",
                                wallets_db[a].balance + amount, 0, <<>>)
    /\ UNCHANGED <<positions_db, loopVars, opened, engineVars>>

\* redeem_stablecoin rejecting only an empty wallet
redeem_nonempty_check(a, amount) ==
    /\ Served
    /\ IF a \notin DOMAIN wallets_db
       THEN /\ last' = Response("redeem", a, amount, "", "NotFound", 0, 0, <<>>)
            /\ UNCHANGED wallets_db
       ELSE IF wallets_db[a].balance <= 0
       THEN /\ last' = Response("redeem", a, amount, "", "InsufficientBalance", 0, 0, <<>>)
            /\ UNCHANGED wallets_db
       ELSE /\ wallets_db' = SetField(wallets_db, a, "balance",
                                      wallets_db[a].balance - amount)
            /\ last' = Response("redeem", a, amount, "", "ok",
                                wallets_db[a].balance - amount, 3 * amount, <<>>)
    /\ UNCHANGED <<positions_db, loopVars, opened, engineVars>>

\* redeem_stablecoin paying out what the wallet holds before it rejects
redeem_partial(a, amount) ==
    /\ Served
    /\ IF a \notin DOMAIN wallets_db
       THEN /\ last' = Response("redeem", a, amount, "", "NotFound", 0, 0, <<>>)
            /\ UNCHANGED wallets_db
       ELSE IF wallets_db[a].balance < amount
       THEN /\ last' = Response("redeem", a, amount, "", "InsufficientBalance", 0, 0, <<>>)
            /\ wallets_db' = SetField(wallets_db, a, "balance", 0)
       ELSE /\ wallets_db' = SetField(wallets_db, a, "balance",
                                      wallets_db[a].balance - amount)
            /\ last' = Response("redeem", a, amount, "", "ok",
                                wallets_db[a].balance - amount, 3 * amount, <<>>)
    /\ UNCHANGED <<positions_db, loopVars, opened, engineVars>>

\* redeem_stablecoin refusing a redemption of the whole balance
redeem_below_balance(a, amount) ==
    /\ Served
    /\ IF a \notin DOMAIN wallets_db
       THEN /\ last' = Response("redeem", a, amount, "", "NotFound", 0, 0, <<>>)
            /\ UNCHANGED wallets_db
       ELSE IF wallets_db[a].balance <= amount
       THEN /\ last' = Response("redeem", a, amount, "", "InsufficientBalance", 0, 0, <<>>)
            /\ UNCHANGED wallets_db
       ELSE /\ wallets_db' = SetField(wallets_db, a, "balance",
                                      wallets_db[a].balance - amount)
            /\ last' = Response("redeem", a, amount, "", "ok",
                                wallets_db[a].balance - amount, 3 * amount, <<>>)
    /\ UNCHANGED <<positions_db, loopVars, opened, engineVars>>

redeem_stablecoin(a, amount) ==
    /\ Served
    /\ IF a \notin DOMAIN wallets_db
       THEN /\ last' = Response("redeem", a, amount, "", "NotFound", 0, 0, <<>>)
            /\ UNCHANGED wallets_db
       ELSE IF wallets_db[a].balance < amount
       THEN /\ last' = Response("redeem", a, amount, "", "InsufficientBalance", 0, 0, <<>>)
            /\ UNCHANGED wallets_db
       ELSE /\ wallets_db' = SetField(wallets_db, a, "balance",
                                      wallets_db[a].balance - amount)
            /\ last' = Response("redeem", a, amount, "", "ok",
                                wallets_db[a].balance - amount, 3 * amount, <<>>)
    /\ UNCHANGED <<positions_db, loopVars, opened, engineVars>>

\* verify_kyc recording a collateral ratio along with the tier
verify_kyc_sets_ratio(a, tier) ==
    /\ Served
    /\ LET db == IF a \notin DOMAIN wallets_db
                 THEN Put(wallets_db, a, Wallet(a)) ELSE wallets_db
       IN  wallets_db' = SetField(SetField(SetField(db, a, "kyc_verified", TRUE),
                                           a, "kyc_tier", tier),
                                  a, "collateral_ratio", MinCollateralRatio)
    /\ last' = Response("verify_kyc", a, 0, tier, "verified", 0, 0, <<>>)
    /\ UNCHANGED <<positions_db, loopVars, opened, engineVars>>

verify_kyc(a, tier) ==
    /\ Served
    /\ LET db == IF a \notin DOMAIN wallets_db
                 THEN Put(wallets_db, a, Wallet(a)) ELSE wallets_db
       IN  wallets_db' = SetField(SetField(db, a, "kyc_verified", TRUE),
                                  a, "kyc_tier", tier)
    /\ last' = Response("verify_kyc", a, 0, tier, "verified", 0, 0, <<>>)
    /\ UNCHANGED <<positions_db, loopVars, opened, engineVars>>

\* wallet_address[:8]
Prefix(a) == SubSeq(a, 1, IF Len(a) < PrefixLen THEN Len(a) ELSE PrefixLen)

\* uuid.uuid4().hex[:8]: eight hexadecimal digits, one string per generator outcome
Hex8(s) == [i \in 1..8 |-> IF i = 8 THEN 48 + s ELSE 48]

\* f"{wallet_address[:8]}-{uuid.uuid4().hex[:8]}"
PositionId(a, s) == Prefix(a) \o <<45>> \o Hex8(s)

deposit_yield(a, protocol, amount, s) ==
    /\ Served
    /\ IF a \notin DOMAIN wallets_db
       THEN /\ last' = Response("deposit", a, amount, protocol, "NotFound", 0, 0, <<>>)
            /\ UNCHANGED <<positions_db, opened>>
       ELSE LET position == [position_id |-> PositionId(a, s),
                             protocol |-> protocol,
                             deposited_amount |-> amount,
                             apy |-> get_apy(protocol),
                             earned_yield |-> 0,
                             status |-> "active"]
            IN  /\ positions_db' = Put(positions_db, position.position_id, position)
                /\ opened' = opened \cup {<<a, position.position_id>>}
                /\ last' = Response("deposit", a, amount, protocol, "ok",
                                    position.apy, 0, position.position_id)
    /\ UNCHANGED <<wallets_db, loopVars, engineVars>>

\* str.startswith
StartsWith(str, prefix) ==
    Len(prefix) <= Len(str) /\ SubSeq(str, 1, Len(prefix)) = prefix

\* the response lists the position ids of the records returned
get_yield_positions(a) ==
    /\ Served
    /\ last' = Response("positions", a, 0, "", "ok",
                        {p \in DOMAIN positions_db :
                            StartsWith(positions_db[p].position_id, Prefix(a))},
                        0, <<>>)
    /\ UNCHANGED <<wallets_db, positions_db, loopVars, opened, engineVars>>

---------------------------------------------------------------------------
(* KYCMiddleware of ai_engine/optimizer/yield_optimizer.py.  No handler of *)
(* the router calls it; it is served to callers of the engine.             *)

KYCMiddleware_verify(a, tier) ==
    /\ Served
    /\ IF tier \notin DOMAIN tier_requirements
       THEN last' = Response("kyc_verify", a, 0, tier, "InvalidTier", 0, 0, <<>>)
       ELSE last' = Response("kyc_verify", a, 0, tier, "verified",
                             tier_requirements[tier], 0, <<>>)
    /\ UNCHANGED <<ledgerVars, loopVars, opened, engineVars>>

\* the tier check_transaction_limits looks up for a wallet ("Simulate lookup")
LookupTier(a) == "full"

check_transaction_limits(a, amount) ==
    /\ Served
    /\ LET tier == LookupTier(a)
           max_tx == tier_requirements[tier]
       IN  last' = Response("check_limits", a, amount, tier,
                            IF amount <= max_tx THEN "allowed" ELSE "denied",
                            max_tx - amount, max_tx, <<>>)
    /\ UNCHANGED <<ledgerVars, loopVars, opened, engineVars>>

---------------------------------------------------------------------------
(* The collateral-valuation service: the collaborator that supplies a      *)
(* wallet's collateral_ratio (no handler of the router writes the field).  *)

SetCollateralRatio(a, r) ==
    /\ a \in DOMAIN wallets_db
    /\ wallets_db' = SetField(wallets_db, a, "collateral_ratio", r)
    /\ last' = NoResponse
    /\ UNCHANGED <<positions_db, nreq, loopVars, opened, engineVars>>

---------------------------------------------------------------------------
(* The handlers as the event loop runs them.  mint_stablecoin and          *)
(* redeem_stablecoin are coroutines (async def): a request waits until the *)
(* loop dispatches it, then its statements run in program order.           *)

IdleTask ==
    [op |-> "none", addr |-> << >>, amount |-> 0, pc |-> "idle", seen |-> 0,
     status |-> ""]

\* handlers declared with def: the framework runs each on a pool thread, and
\* a new one may start while another is between two statements
LoopFree_threads == TRUE

\* The loop takes the next coroutine only when the one it runs has returned
\* or awaits; the handlers contain no await.
LoopFree == running = 0

\* a request arrives
Submit(t, op, a, amount) ==
    /\ Served
    /\ tasks[t].pc \in {"idle", "done"}
    /\ tasks' = [tasks EXCEPT ![t] = [op |-> op, addr |-> a, amount |-> amount,
                                      pc |-> "pending", seen |-> 0, status |-> ""]]
    /\ UNCHANGED <<ledgerVars, last, running, credited, debited, opened, engineVars>>

\* the loop starts the handler of a waiting request
Dispatch(t) ==
    /\ LoopFree
    /\ tasks[t].pc = "pending"
    /\ tasks' = [tasks EXCEPT ![t].pc = "start"]
    /\ running' = t
    /\ UNCHANGED <<ledgerVars, last, nreq, credited, debited, opened, engineVars>>

Return(t, status) ==
    /\ tasks' = [tasks EXCEPT ![t].pc = "done", ![t].seen = 0,
                              ![t].status = status]
    /\ running' = 0

\* mint_stablecoin up to the collateral test
MintCheck(t) ==
    /\ tasks[t].pc = "start" /\ tasks[t].op = "mint"
    /\ LET a == tasks[t].addr
       IN  IF a \notin DOMAIN wallets_db
           THEN Return(t, "NotFound")
           ELSE IF ~wallets_db[a].kyc_verified
           THEN Return(t, "ComplianceRequired")
           ELSE IF wallets_db[a].collateral_ratio < MinCollateralRatio
           THEN Return(t, "InsufficientCollateral")
           ELSE /\ tasks' = [tasks EXCEPT ![t].pc = "checked",
                                          ![t].seen = wallets_db[a].balance]
                /\ UNCHANGED running
    /\ UNCHANGED <<ledgerVars, last, nreq, credited, debited, opened, engineVars>>

\* wallet.balance += request.amount, and the response
MintWrite(t) ==
    /\ tasks[t].pc = "checked" /\ tasks[t].op = "mint"
    /\ LET a == tasks[t].addr
       IN  /\ wallets_db' = SetField(wallets_db, a, "balance",
                                     wallets_db[a].balance + tasks[t].amount)
           /\ credited' = [credited EXCEPT ![a] = @ + tasks[t].amount]
    /\ Return(t, "ok")
    /\ UNCHANGED <<positions_db, last, nreq, debited, opened, engineVars>>

\* redeem_stablecoin up to the balance test
RedeemCheck(t) ==
    /\ tasks[t].pc = "start" /\ tasks[t].op = "redeem"
    /\ LET a == tasks[t].addr
       IN  IF a \notin DOMAIN wallets_db
           THEN Return(t, "NotFound")
           ELSE IF wallets_db[a].balance < tasks[t].amount
           THEN Return(t, "InsufficientBalance")
           ELSE /\ tasks' = [tasks EXCEPT ![t].pc = "checked",
                                          ![t].seen = wallets_db[a].balance]
                /\ UNCHANGED running
    /\ UNCHANGED <<ledgerVars, last, nreq, credited, debited, opened, engineVars>>

\* wallet.balance -= request.amount, and the response
RedeemWrite(t) ==
    /\ tasks[t].pc = "checked" /\ tasks[t].op = "redeem"
    /\ LET a == tasks[t].addr
       IN  /\ wallets_db' = SetField(wallets_db, a, "balance",
                                     wallets_db[a].balance - tasks[t].amount)
           /\ debited' = [debited EXCEPT ![a] = @ + tasks[t].amount]
    /\ Return(t, "ok")
    /\ UNCHANGED <<positions_db, last, nreq, credited, opened, engineVars>>

---------------------------------------------------------------------------
(* YieldOptimizer of ai_engine/optimizer/yield_optimizer.py.  A registry   *)
(* is the protocols dict as the sequence of its items; a positions mapping *)
(* is the sequence of its items.  annual and additional yields are in      *)
(* thousandths of a unit (amount x APY in thousandths).                    *)

ImprovementThreshold == 10      \* 0.01

\* YieldOptimizer.__init__
DefaultRegistry ==
    << [protocol |-> "aave", supply_apy |-> 45,
        tokens |-> {"USDC", "USDT", "DAI", "ETH"}],
       [protocol |-> "compound", supply_apy |-> 38,
        tokens |-> {"USDC", "USDT", "ETH"}],
       [protocol |-> "curve", supply_apy |-> 25,
        tokens |-> {"USDC", "USDT", "DAI", "FRAX"}],
       [protocol |-> "yearn", supply_apy |-> 65,
        tokens |-> {"USDC", "USDT"}] >>

\* self.protocols[protocol]["supply_apy"] if protocol in self.protocols else 0.0
GetApy(reg, protocol) ==
    IF \E i \in DOMAIN reg : reg[i].protocol = protocol
    THEN reg[CHOOSE i \in DOMAIN reg : reg[i].protocol = protocol].supply_apy
    ELSE 0

\* the loop of get_best_yield: one opportunity per protocol that lists the token
RECURSIVE Opportunities(_, _, _, _)
Opportunities(reg, token, amount, i) ==
    IF i > Len(reg) THEN << >>
    ELSE (IF token \in reg[i].tokens
          THEN << [protocol |-> reg[i].protocol, apy |-> reg[i].supply_apy,
                   annual_yield |-> amount * reg[i].supply_apy] >>
          ELSE << >>)
         \o Opportunities(reg, token, amount, i + 1)

\* x placed behind every element whose apy is at least its own
InsertByApy(sorted, x) ==
    LET k == Cardinality({i \in DOMAIN sorted : sorted[i].apy >= x.apy})
    IN  SubSeq(sorted, 1, k) \o <<x>> \o SubSeq(sorted, k + 1, Len(sorted))

\* a sort that puts the lowest apy first
InsertByApy_ascending(sorted, x) ==
    LET k == Cardinality({i \in DOMAIN sorted : sorted[i].apy <= x.apy})
    IN  SubSeq(sorted, 1, k) \o <<x>> \o SubSeq(sorted, k + 1, Len(sorted))

\* opportunities.sort(key=lambda x: x["apy"], reverse=True): a stable sort,
\* elements of equal apy keep the order they were appended in
RECURSIVE SortByApy(_)
SortByApy(ops) ==
    IF ops = << >> THEN << >>
    ELSE InsertByApy(SortByApy(SubSeq(ops, 1, Len(ops) - 1)), ops[Len(ops)])

\* best_protocol is << >> for None and <<opportunity>> otherwise
get_best_yield(reg, token, amount) ==
    LET opportunities == SortByApy(Opportunities(reg, token, amount, 1))
    IN  [status |-> "ok", token |-> token, amount |-> amount,
         best_protocol |-> IF opportunities # << >>
                           THEN <<opportunities[1]>> ELSE << >>,
         all_opportunities |-> opportunities]

\* the loop body with >= for >
Recommendation_at_threshold(reg, position) ==
    LET current_apy == GetApy(reg, position.protocol)
        best == get_best_yield(reg, "USDC", position.amount)
    IN  IF best.best_protocol # << >>
           /\ best.best_protocol[1].apy >= current_apy + ImprovementThreshold
        THEN << [from_protocol |-> position.protocol,
                 to_protocol |-> best.best_protocol[1].protocol,
                 amount |-> position.amount,
                 current_apy |-> current_apy,
                 new_apy |-> best.best_protocol[1].apy,
                 additional_yield |->
                     position.amount * (best.best_protocol[1].apy - current_apy)] >>
        ELSE << >>

\* the body of the loop of rebalance_recommendation for one item
Recommendation(reg, position) ==
    LET current_apy == GetApy(reg, position.protocol)
        best == get_best_yield(reg, "USDC", position.amount)
    IN  IF best.best_protocol # << >>
           /\ best.best_protocol[1].apy > current_apy + ImprovementThreshold
        THEN << [from_protocol |-> position.protocol,
                 to_protocol |-> best.best_protocol[1].protocol,
                 amount |-> position.amount,
                 current_apy |-> current_apy,
                 new_apy |-> best.best_protocol[1].apy,
                 additional_yield |->
                     position.amount * (best.best_protocol[1].apy - current_apy)] >>
        ELSE << >>

RECURSIVE Recommendations(_, _, _)
Recommendations(reg, positions, i) ==
    IF i > Len(positions) THEN << >>
    ELSE Recommendation(reg, positions[i]) \o Recommendations(reg, positions, i + 1)

rebalance_recommendation(reg, positions) ==
    [status |-> "ok", recommendations |-> Recommendations(reg, positions, 1)]

\* sum(positions.values())
RECURSIVE TotalValue(_, _)
TotalValue(positions, i) ==
    IF i > Len(positions) THEN 0
    ELSE positions[i].amount + TotalValue(positions, i + 1)

\* the loop of calculate_portfolio_yield.  weight x apy is kept exact: the sum
\* is a numerator over the denominator total_value (over 1 when every weight
\* is 0).
RECURSIVE WeightedNumerator(_, _, _, _)
WeightedNumerator(reg, positions, total_value, i) ==
    IF i > Len(positions) THEN 0
    ELSE (IF total_value > 0
          THEN positions[i].amount * GetApy(reg, positions[i].protocol)
          ELSE 0)
         + WeightedNumerator(reg, positions, total_value, i + 1)

\* weight = amount / total_value without the test of total_value
calculate_portfolio_yield_unguarded(reg, positions) ==
    LET total_value == TotalValue(positions, 1)
    IN  IF total_value = 0 /\ positions # << >>
        THEN [status |-> "ZeroDivisionError", total_value |-> total_value,
              weighted_apy |-> [num |-> 0, den |-> 1], annual_yield |-> 0]
        ELSE LET num == WeightedNumerator(reg, positions, 1, 1)
                 den == IF total_value = 0 THEN 1 ELSE total_value
             IN  [status |-> "ok", total_value |-> total_value,
                  weighted_apy |-> [num |-> num, den |-> den],
                  annual_yield |-> (total_value * num) \div den]

calculate_portfolio_yield(reg, positions) ==
    LET total_value == TotalValue(positions, 1)
        num == WeightedNumerator(reg, positions, total_value, 1)
        den == IF total_value > 0 THEN total_value ELSE 1
    IN  [status |-> "ok", total_value |-> total_value,
         weighted_apy |-> [num |-> num, den |-> den],
         annual_yield |-> (total_value * num) \div den]

---------------------------------------------------------------------------
(* CrossChainYieldRouter of ai_engine/optimizer/cross_chain.py.  APYs are  *)
(* in tenths of a percent, fees in cents, amounts in USD.  A 30-day        *)
(* profit amount x (apy / 100) x (30 / 365) USD is kept exact as the       *)
(* integer 3 x amount x apy, its value in cents times 365; fees are put    *)
(* on the same scale.                                                      *)

\* CrossChainYieldRouter.__init__, in cents
DefaultFees ==
    [c \in {"ethereum", "arbitrum", "base", "optimism"} |->
        CASE c = "ethereum" -> 1250 [] c = "arbitrum" -> 45
          [] c = "base" -> 15 [] c = "optimism" -> 30]

\* the keys of network_apys in insertion order
Chains == <<"ethereum", "arbitrum", "base", "optimism">>

network_apys ==
    [c \in {"ethereum", "arbitrum", "base", "optimism"} |->
        CASE c = "ethereum" -> 42 [] c = "arbitrum" -> 85
          [] c = "base" -> 121 [] c = "optimism" -> 68]

\* amount_usd * (apy / 100) * (30 / 365), in cents x 365
Profit30d(amount, apy) == 3 * amount * apy

\* a cost in cents on the scale of Profit30d
Scaled(cents) == 365 * cents

\* the cost of the way to the target only
BridgeCost_one_way(fees, current_chain, chain) == fees[chain]

\* self.bridge_fees[current_chain] + self.bridge_fees[chain]
BridgeCost(fees, current_chain, chain) == fees[current_chain] + fees[chain]

\* the test without the comparison to the profit of staying
Improves_on_best_only(net_profit, current_30d_profit, best_net_profit) ==
    net_profit > best_net_profit

\* net_profit > current_30d_profit and net_profit > best_net_profit
Improves(net_profit, current_30d_profit, best_net_profit) ==
    net_profit > current_30d_profit /\ net_profit > best_net_profit

\* the loop over network_apys.items(): <<best_target, best_net_profit>>
RECURSIVE ScanChains(_, _, _, _, _, _)
ScanChains(fees, current_chain, amount, i, best_target, best_net_profit) ==
    IF i > Len(Chains) THEN <<best_target, best_net_profit>>
    ELSE IF Chains[i] = current_chain
    THEN ScanChains(fees, current_chain, amount, i + 1, best_target, best_net_profit)
    ELSE LET current_apy == IF current_chain \in DOMAIN network_apys
                            THEN network_apys[current_chain] ELSE 0
             net_profit == Profit30d(amount, network_apys[Chains[i]])
                           - Scaled(BridgeCost(fees, current_chain, Chains[i]))
         IN  IF Improves(net_profit, Profit30d(amount, current_apy), best_net_profit)
             THEN ScanChains(fees, current_chain, amount, i + 1, Chains[i], net_profit)
             ELSE ScanChains(fees, current_chain, amount, i + 1, best_target,
                             best_net_profit)

\* self.bridge_fees[current_chain] raises KeyError for a chain without a fee
evaluate_cross_chain_opportunities(fees, current_chain, amount) ==
    IF current_chain \notin DOMAIN fees
    THEN [status |-> "KeyError"]
    ELSE LET current_apy == IF current_chain \in DOMAIN network_apys
                            THEN network_apys[current_chain] ELSE 0
             current_30d_profit == Profit30d(amount, current_apy)
             best == ScanChains(fees, current_chain, amount, 1, current_chain, 0)
         IN  IF best[1] # current_chain
             THEN [status |-> "ok", action |-> "BRIDGE", target_chain |-> best[1],
                   projected_30d_net_profit |-> best[2],
                   current_30d_profit |-> current_30d_profit,
                   estimated_gas |-> BridgeCost(fees, current_chain, best[1])]
             ELSE [status |-> "ok", action |-> "HOLD", target_chain |-> current_chain,
                   projected_30d_net_profit |-> current_30d_profit]

NoCall == [op |-> "none"]
NoResult == [status |-> "none"]

BestYieldCall(token, amount) ==
    /\ call.op = "none"
    /\ call' = [op |-> "get_best_yield", token |-> token, amount |-> amount]
    /\ result' = get_best_yield(registry, token, amount)
    /\ UNCHANGED <<ledgerVars, last, nreq, loopVars, opened, registry, bridge_fees>>

RebalanceCall(positions) ==
    /\ call.op = "none"
    /\ call' = [op |-> "rebalance_recommendation", positions |-> positions]
    /\ result' = rebalance_recommendation(registry, positions)
    /\ UNCHANGED <<ledgerVars, last, nreq, loopVars, opened, registry, bridge_fees>>

PortfolioCall(positions) ==
    /\ call.op = "none"
    /\ call' = [op |-> "calculate_portfolio_yield", positions |-> positions]
    /\ result' = calculate_portfolio_yield(registry, positions)
    /\ UNCHANGED <<ledgerVars, last, nreq, loopVars, opened, registry, bridge_fees>>

EvaluateCall(current_chain, amount) ==
    /\ call.op = "none"
    /\ call' = [op |-> "evaluate", chain |-> current_chain, amount |-> amount]
    /\ result' = evaluate_cross_chain_opportunities(bridge_fees, current_chain, amount)
    /\ UNCHANGED <<ledgerVars, last, nreq, loopVars, opened, registry, bridge_fees>>

\* fee tables: the built-in one and ones with other fees for three chains
FeeTables ==
    {[DefaultFees EXCEPT !["arbitrum"] = a, !["base"] = b, !["optimism"] = o] :
        a \in {45, 15}, b \in {15, 1125}, o \in {30, 45}}

\* sequences over S of length at most n
SeqsUpTo(S, n) == UNION {[1..k -> S] : k \in 0..n}

\* a dict has each key once
DistinctKeys(items) ==
    \A i, j \in DOMAIN items : i # j => items[i].protocol # items[j].protocol

Registries ==
    {DefaultRegistry} \cup
    {r \in SeqsUpTo([protocol : RegistryIds, supply_apy : RegistryApys,
                     tokens : TokenSets], MaxRegistryLen) : DistinctKeys(r)}

PositionMaps ==
    {q \in SeqsUpTo([protocol : PositionKeys, amount : PositionAmounts],
                    MaxPositions) : DistinctKeys(q)}

---------------------------------------------------------------------------

\* the empty ledger and the idle loop
InitLedger ==
    /\ wallets_db = << >>
    /\ positions_db = << >>
    /\ last = NoResponse
    /\ nreq = 0
    /\ tasks = [t \in TaskIds |-> IdleTask]
    /\ running = 0
    /\ credited = [a \in Addresses |-> 0]
    /\ debited = [a \in Addresses |-> 0]
    /\ opened = {}

Init ==
    /\ InitLedger
    /\ registry = DefaultRegistry
    /\ bridge_fees = DefaultFees
    /\ call = NoCall
    /\ result = NoResult

\* the optimizer over a registry
InitYield ==
    /\ InitLedger
    /\ registry \in Registries
    /\ bridge_fees = DefaultFees
    /\ call = NoCall
    /\ result = NoResult

NextYield ==
    \/ \E token \in QueryTokens, amount \in QueryAmounts : BestYieldCall(token, amount)
    \/ \E positions \in PositionMaps : RebalanceCall(positions)
    \/ \E positions \in PositionMaps : PortfolioCall(positions)

SpecYield == InitYield /\ [][NextYield]_vars

\* the router over a fee table
InitRouter ==
    /\ InitLedger
    /\ registry = DefaultRegistry
    /\ bridge_fees \in FeeTables
    /\ call = NoCall
    /\ result = NoResult

NextRouter ==
    \E c \in RouterChains, amount \in RouterAmounts : EvaluateCall(c, amount)

SpecRouter == InitRouter /\ [][NextRouter]_vars

Next ==
    \/ \E a \in Addresses : create_wallet(a)
    \/ \E a \in Addresses, m \in Amounts : mint_stablecoin(a, m)
    \/ \E a \in Addresses, m \in Amounts : redeem_stablecoin(a, m)
    \/ \E a \in Addresses, t \in Tiers : verify_kyc(a, t)
    \/ \E a \in Addresses, p \in Protocols, m \in DepositAmounts, s \in Suffixes :
          deposit_yield(a, p, m, s)
    \/ \E a \in Addresses, r \in Ratios : SetCollateralRatio(a, r)

Spec == Init /\ [][Next]_vars

\* The wallet operations alone
NextWallet ==
    \/ \E a \in Addresses : create_wallet(a)
    \/ \E a \in Addresses, m \in Amounts : mint_stablecoin(a, m)
    \/ \E a \in Addresses, m \in Amounts : redeem_stablecoin(a, m)
    \/ \E a \in Addresses, t \in Tiers : verify_kyc(a, t)
    \/ \E a \in Addresses, r \in Ratios : SetCollateralRatio(a, r)

SpecWallet == Init /\ [][NextWallet]_vars

\* The wallet operations and deposits into one protocol: the operations that
\* refer to a wallet address
NextLifecycle ==
    \/ \E a \in Addresses : create_wallet(a)
    \/ \E a \in Addresses, m \in Amounts : mint_stablecoin(a, m)
    \/ \E a \in Addresses, m \in Amounts : redeem_stablecoin(a, m)
    \/ \E a \in Addresses, t \in Tiers : verify_kyc(a, t)
    \/ \E a \in Addresses, s \in Suffixes : deposit_yield(a, "aave", 100, s)
    \/ \E a \in Addresses, r \in Ratios : SetCollateralRatio(a, r)

SpecLifecycle == Init /\ [][NextLifecycle]_vars

\* The five handlers of the ledger with nothing outside them acting
NextHandlers ==
    \/ \E a \in Addresses : create_wallet(a)
    \/ \E a \in Addresses, m \in Amounts : mint_stablecoin(a, m)
    \/ \E a \in Addresses, m \in Amounts : redeem_stablecoin(a, m)
    \/ \E a \in Addresses, t \in Tiers : verify_kyc(a, t)
    \/ \E a \in Addresses, p \in Protocols, m \in DepositAmounts, s \in Suffixes :
          deposit_yield(a, p, m, s)

SpecHandlers == Init /\ [][NextHandlers]_vars

\* Opening positions and listing them
NextPositions ==
    \/ \E a \in Addresses : create_wallet(a)
    \/ \E a \in Addresses, p \in Protocols, m \in DepositAmounts, s \in Suffixes :
          deposit_yield(a, p, m, s)
    \/ \E a \in Addresses : get_yield_positions(a)

SpecPositions == Init /\ [][NextPositions]_vars

\* Concurrent mint and redeem requests on the event loop; create_wallet and
\* verify_kyc are coroutines of the same loop, and the collateral service
\* reports between handlers
NextLoop ==
    \/ \E a \in Addresses : LoopFree /\ create_wallet(a)
    \/ \E a \in Addresses : LoopFree /\ verify_kyc(a, "basic")
    \/ \E a \in Addresses : LoopFree /\ SetCollateralRatio(a, MinCollateralRatio)
    \/ \E t \in TaskIds, op \in {"mint", "redeem"}, a \in Addresses,
          m \in LoopAmounts : Submit(t, op, a, m)
    \/ \E t \in TaskIds : Dispatch(t)
    \/ \E t \in TaskIds : MintCheck(t)
    \/ \E t \in TaskIds : MintWrite(t)
    \/ \E t \in TaskIds : RedeemCheck(t)
    \/ \E t \in TaskIds : RedeemWrite(t)

SpecLoop == Init /\ [][NextLoop]_vars

\* The compliance gate next to the wallet table it is meant to consult
NextGate ==
    \/ \E a \in Addresses : create_wallet(a)
    \/ \E a \in Addresses, t \in Tiers : verify_kyc(a, t)
    \/ \E a \in Addresses, t \in Tiers : KYCMiddleware_verify(a, t)
    \/ \E a \in Addresses, m \in LimitAmounts : check_transaction_limits(a, m)

SpecGate == Init /\ [][NextGate]_vars

---------------------------------------------------------------------------
(* Properties *)

\* the step serves a request of kind op
Serves(op) == nreq' = nreq + 1 /\ last'.op = op

\* C1: in every reachable ledger state every wallet's balance is >= 0.
C1_BalanceNonNegative ==
    \A a \in DOMAIN wallets_db : wallets_db[a].balance >= 0

\* a redeem of the whole balance has just emptied a wallet
C1_Witness ==
    /\ last.op = "redeem" /\ last.status = "ok"
    /\ wallets_db[last.addr].balance = 0
    /\ wallets_db[last.addr].balance = last.ret

C3_AsStated ==
    [][(Serves("mint") /\ last'.addr \in DOMAIN wallets_db
          /\ wallets_db[last'.addr].collateral_ratio < 150)
        => last'.status = "InsufficientCollateral"]_vars

\* C3 amended: a mint on an existing, verified wallet with collateral_ratio
\* < 1.5 fails with InsufficientCollateral; on an existing unverified wallet it
\* fails with ComplianceRequired whatever the collateral ratio.
C3_VerifiedLowCollateral ==
    [][(Serves("mint") /\ last'.addr \in DOMAIN wallets_db)
        => LET w == wallets_db[last'.addr]
           IN  /\ (w.kyc_verified /\ w.collateral_ratio < 150)
                     => last'.status = "InsufficientCollateral"
               /\ ~w.kyc_verified => last'.status = "ComplianceRequired"]_vars

\* a verified wallet with collateral ratio 1.2 was refused a mint of 100
C3_Witness ==
    /\ last.op = "mint" /\ last.amount = 100
    /\ last.status = "InsufficientCollateral"
    /\ wallets_db[last.addr].kyc_verified
    /\ wallets_db[last.addr].collateral_ratio = 120

\* C4: a handler's check and its balance update take effect as one step: while
\* a handler is between its precondition check and its write no other handler
\* is running and the balance is the one it checked; every balance is the sum
\* of the successful mints minus the sum of the successful redeems (wallets
\* start at 0), and is never negative.
C4_HandlersAtomic ==
    /\ \A t \in TaskIds :
          tasks[t].pc = "checked"
          => /\ wallets_db[tasks[t].addr].balance = tasks[t].seen
             /\ \A u \in TaskIds \ {t} : tasks[u].pc \notin {"start", "checked"}
    /\ \A a \in DOMAIN wallets_db :
          /\ wallets_db[a].balance = credited[a] - debited[a]
          /\ wallets_db[a].balance >= 0

\* two redeems of the whole balance were in flight together on one wallet:
\* one was served, the other refused
C4_Witness ==
    /\ tasks[1].op = "redeem" /\ tasks[2].op = "redeem"
    /\ tasks[1].addr = tasks[2].addr
    /\ tasks[1].status = "InsufficientBalance" /\ tasks[2].status = "ok"
    /\ tasks[1].amount = tasks[2].amount
    /\ credited[tasks[1].addr] = tasks[1].amount
    /\ wallets_db[tasks[1].addr].balance = 0

\* C5: a redeem of more than the wallet's balance fails with
\* InsufficientBalance and changes no wallet and no position, the first time
\* and every time it is repeated.
C5_RedeemRejected ==
    [][(Serves("redeem") /\ last'.addr \in DOMAIN wallets_db
          /\ last'.amount > wallets_db[last'.addr].balance)
        => /\ last'.status = "InsufficientBalance"
           /\ UNCHANGED ledgerVars]_vars

\* balance 50: redeem 100 was refused, and refused again right after
C5_Witness ==
    /\ last.op = "redeem" /\ last.again
    /\ last.status = "InsufficientBalance"
    /\ last.amount = 100
    /\ wallets_db[last.addr].balance = 50

\* C6: every successful mint, redeem or openPosition is for a verified wallet
\* and for an amount within the transaction ceiling of the wallet's KYC tier.
C6_ComplianceGated ==
    (last.op \in {"mint", "redeem", "deposit"} /\ last.status = "ok")
    => LET w == wallets_db[last.addr]
       IN  /\ w.kyc_verified
           /\ w.kyc_tier = "basic" => last.amount <= 10000
           /\ w.kyc_tier = "full" => last.amount <= 1000000

\* C7: a wallet with kyc_verified = true has kyc_tier in {basic, full}.
C7_VerifiedTierRecognized ==
    \A a \in DOMAIN wallets_db :
        wallets_db[a].kyc_verified => wallets_db[a].kyc_tier \in {"basic", "full"}

\* C8: once a wallet's kyc_verified is true it stays true.
C8_VerifiedOneWay ==
    [][\A a \in DOMAIN wallets_db :
          wallets_db[a].kyc_verified
          => (a \in DOMAIN wallets_db' /\ wallets_db'[a].kyc_verified)]_vars

\* create-wallet was served for a wallet that is verified and holds a balance
C8_Witness ==
    /\ last.op = "create_wallet"
    /\ wallets_db[last.addr].kyc_verified
    /\ wallets_db[last.addr].balance > 0

\* C9: a wallet verified at tier full is never later at another tier.
C9_NoDowngrade ==
    [][\A a \in DOMAIN wallets_db :
          (wallets_db[a].kyc_verified /\ wallets_db[a].kyc_tier = "full")
          => wallets_db'[a].kyc_tier = "full"]_vars

\* C10: for a wallet verified at a recognized tier, checkLimit answers against
\* the ceiling of that tier: allowed iff amount <= ceiling, remaining =
\* ceiling - amount.
C10_LimitOfOwnTier ==
    (/\ last.op = "check_limits"
     /\ last.addr \in DOMAIN wallets_db
     /\ wallets_db[last.addr].kyc_tier \in {"basic", "full"})
    => LET ceiling == IF wallets_db[last.addr].kyc_tier = "basic"
                      THEN 10000 ELSE 1000000
       IN  /\ (last.status = "allowed") <=> (last.amount <= ceiling)
           /\ last.ret = ceiling - last.amount

\* the place of a protocol identifier in lexical order
LexRank(protocol) ==
    CASE protocol = "aave" -> 1 [] protocol = "compound" -> 2
      [] protocol = "curve" -> 3 [] protocol = "yearn" -> 4

\* the registry entries that list a token
Supporting(token) == {i \in DOMAIN registry : token \in registry[i].tokens}

\* C11: bestYield returns exactly the protocols supporting the token, sorted by
\* supply_apy descending with ties broken by protocol identifier ascending;
\* best is the first element, or absent when no protocol supports the token.
C11_RankedByApyThenId ==
    call.op = "get_best_yield"
    => LET ops == result.all_opportunities
       IN  /\ Len(ops) = Cardinality(Supporting(call.token))
           /\ {ops[i].protocol : i \in DOMAIN ops}
                = {registry[i].protocol : i \in Supporting(call.token)}
           /\ \A i, j \in DOMAIN ops :
                 i < j => \/ ops[i].apy > ops[j].apy
                          \/ /\ ops[i].apy = ops[j].apy
                             /\ LexRank(ops[i].protocol) < LexRank(ops[j].protocol)
           /\ result.best_protocol = IF ops = << >> THEN << >> ELSE <<ops[1]>>

\* the chains the router weighs against staying
Candidates == {Chains[i] : i \in DOMAIN Chains} \ {call.chain}

\* net 30-day profit of bridging to chain c, for the call made
NetOf(c) ==
    3 * call.amount * network_apys[c]
    - 365 * (bridge_fees[call.chain] + bridge_fees[c])

\* 30-day profit of staying, for the call made
StayProfit ==
    3 * call.amount * (IF call.chain \in DOMAIN network_apys
                       THEN network_apys[call.chain] ELSE 0)

\* C12: the router returns BRIDGE exactly when one candidate has a net profit
\* strictly above every other candidate's and strictly above the profit of
\* staying, and then to that candidate; on a tie for the greatest net profit,
\* or when no candidate exceeds the profit of staying, it returns HOLD.
C12_BridgeIffUniqueBest ==
    (call.op = "evaluate" /\ result.status = "ok")
    => LET UniqueBest(c) == /\ NetOf(c) > StayProfit
                            /\ \A d \in Candidates \ {c} : NetOf(d) < NetOf(c)
       IN  /\ (result.action = "BRIDGE") <=> (\E c \in Candidates : UniqueBest(c))
           /\ result.action = "BRIDGE" => UniqueBest(result.target_chain)
           /\ result.action \in {"BRIDGE", "HOLD"}

\* C13: the router never returns BRIDGE to a chain whose net 30-day profit is
\* at most the profit of staying, and never BRIDGE to the current chain.
C13_BridgeOnlyIfBetter ==
    (call.op = "evaluate" /\ result.status = "ok" /\ result.action = "BRIDGE")
    => /\ result.target_chain # call.chain
       /\ result.target_chain \in Candidates
       /\ NetOf(result.target_chain) > StayProfit

\* BRIDGE was returned although another candidate earns something yet no more
\* than staying
C13_Witness ==
    /\ call.op = "evaluate" /\ result.status = "ok" /\ result.action = "BRIDGE"
    /\ \E c \in Candidates : NetOf(c) > 0 /\ NetOf(c) <= StayProfit

\* the highest supply_apy among the protocols listing USDC (0 when none does)
BestUsdcApy ==
    IF Supporting("USDC") = {} THEN 0
    ELSE LET i == CHOOSE i \in Supporting("USDC") :
                     \A j \in Supporting("USDC") :
                        registry[j].supply_apy <= registry[i].supply_apy
         IN  registry[i].supply_apy

\* the registry's apy of a protocol, 0 for one it does not hold
CurrentApy(protocol) ==
    IF \E i \in DOMAIN registry : registry[i].protocol = protocol
    THEN registry[CHOOSE i \in DOMAIN registry :
                     registry[i].protocol = protocol].supply_apy
    ELSE 0

\* a position of the call for which the improvement exceeds 0.01
Improvable(k) ==
    /\ Supporting("USDC") # {}
    /\ BestUsdcApy - CurrentApy(call.positions[k].protocol) > 10

\* C14: rebalanceRecommendations emits a recommendation for a position exactly
\* when best_apy - current_apy > 0.01; it never names the position's own
\* protocol as target, and additional_yield = amount x (best_apy - current_apy).
C14_RecommendIffImprovement ==
    call.op = "rebalance_recommendation"
    => LET recs == result.recommendations
           picked == {k \in DOMAIN call.positions : Improvable(k)}
       IN  /\ Len(recs) = Cardinality(picked)
           /\ {recs[i].from_protocol : i \in DOMAIN recs}
                = {call.positions[k].protocol : k \in picked}
           /\ \A i \in DOMAIN recs :
                 /\ recs[i].to_protocol # recs[i].from_protocol
                 /\ recs[i].new_apy = BestUsdcApy
                 /\ recs[i].current_apy = CurrentApy(recs[i].from_protocol)
                 /\ \E k \in picked :
                       /\ call.positions[k].protocol = recs[i].from_protocol
                       /\ call.positions[k].amount = recs[i].amount
                 /\ recs[i].additional_yield
                      = recs[i].amount * (BestUsdcApy - CurrentApy(recs[i].from_protocol))

\* one position was recommended to move and another, exactly 0.01 below the
\* best, was not
C14_Witness ==
    /\ call.op = "rebalance_recommendation"
    /\ Len(result.recommendations) = 1
    /\ \E k \in DOMAIN call.positions :
          /\ Supporting("USDC") # {}
          /\ BestUsdcApy - CurrentApy(call.positions[k].protocol) = 10

\* sum of amount x apy over the positions of the call
RECURSIVE SumAmountApy(_)
SumAmountApy(k) ==
    IF k = 0 THEN 0
    ELSE call.positions[k].amount * CurrentApy(call.positions[k].protocol)
         + SumAmountApy(k - 1)

\* sum of the amounts of the positions of the call
RECURSIVE SumAmount(_)
SumAmount(k) ==
    IF k = 0 THEN 0 ELSE call.positions[k].amount + SumAmount(k - 1)

\* C17: portfolioYield never fails; with total_value > 0, weighted_apy is the
\* sum of (amount_i / total_value) x apy_i and annual_yield is total_value x
\* weighted_apy; with total_value = 0 both are 0.
C17_PortfolioYield ==
    call.op = "calculate_portfolio_yield"
    => LET n == Len(call.positions)
           w == result.weighted_apy
       IN  /\ result.status = "ok"
           /\ result.total_value = SumAmount(n)
           /\ w.den > 0
           /\ result.total_value > 0
                => /\ w.num * result.total_value = SumAmountApy(n) * w.den
                   /\ result.annual_yield = SumAmountApy(n)
           /\ result.total_value = 0
                => w.num = 0 /\ result.annual_yield = 0

\* a mapping of two positions, both of amount 0, was valued
C17_Witness ==
    /\ call.op = "calculate_portfolio_yield"
    /\ Len(call.positions) = 2
    /\ result.status = "ok" /\ result.total_value = 0

\* a value in cents x 365, rounded to the cent (for values >= 0)
RoundCents(x) == (2 * x + 365) \div 730

\* the call of scenario B on the built-in fee table
ScenarioB ==
    /\ call.op = "evaluate" /\ call.chain = "ethereum" /\ call.amount = 10000
    /\ bridge_fees = DefaultFees

\* C18 as stated: scenario B yields BRIDGE to base, gas 12.65, current 30-day
\* profit 34.52 and projected net 30-day profit 87.04.
C18_AsStated ==
    ScenarioB
    => /\ result.status = "ok" /\ result.action = "BRIDGE"
       /\ result.target_chain = "base"
       /\ result.estimated_gas = 1265
       /\ RoundCents(result.current_30d_profit) = 3452
       /\ RoundCents(result.projected_30d_net_profit) = 8704

\* C18 amended: scenario B yields BRIDGE to base, gas 12.65, current 30-day
\* profit 34.52 and projected net 30-day profit 86.80.
C18_ScenarioB ==
    ScenarioB
    => /\ result.status = "ok" /\ result.action = "BRIDGE"
       /\ result.target_chain = "base"
       /\ result.estimated_gas = 1265
       /\ RoundCents(result.current_30d_profit) = 3452
       /\ RoundCents(result.projected_30d_net_profit) = 8680

\* scenario B was evaluated
C18_Witness ==
    /\ ScenarioB
    /\ result.status = "ok" /\ result.action = "BRIDGE"
    /\ result.projected_30d_net_profit > result.current_30d_profit

\* C15: redeem on an existing wallet with balance >= amount (amount equal to
\* the balance included) succeeds, decreases that balance by exactly amount
\* and reports collateral returned of amount x 1.5 (ret2 counts halves);
\* redeem on an unknown wallet fails with NotFound.
C15_RedeemSucceeds ==
    [][Serves("redeem")
       => LET a == last'.addr
              amount == last'.amount
          IN  /\ a \notin DOMAIN wallets_db
                 => last'.status = "NotFound" /\ UNCHANGED ledgerVars
              /\ (a \in DOMAIN wallets_db /\ wallets_db[a].balance >= amount)
                 => /\ last'.status = "ok"
                    /\ wallets_db'[a].balance = wallets_db[a].balance - amount
                    /\ last'.ret = wallets_db'[a].balance
                    /\ last'.ret2 = 3 * amount
                    /\ \A b \in DOMAIN wallets_db \ {a} :
                          wallets_db'[b] = wallets_db[b]
                    /\ DOMAIN wallets_db' = DOMAIN wallets_db
                    /\ UNCHANGED positions_db]_vars

\* a wallet's whole balance of 100 was redeemed
C15_Witness ==
    /\ last.op = "redeem" /\ last.status = "ok"
    /\ last.amount = 100 /\ last.ret = 0 /\ last.ret2 = 300
    /\ wallets_db[last.addr].balance = 0

\* C16: openPosition fails with NotFound and creates nothing when the wallet
\* does not exist; otherwise it creates one active position with earned_yield
\* 0 and the registry's supply APY of the protocol (0 when unknown); no later
\* ledger operation changes the apy stored on an existing position.
C16_ApyFrozen ==
    [][/\ Serves("deposit")
          => IF last'.addr \notin DOMAIN wallets_db
             THEN last'.status = "NotFound" /\ UNCHANGED ledgerVars
             ELSE /\ last'.status = "ok"
                  /\ last'.pid \in DOMAIN positions_db'
                  /\ positions_db'[last'.pid].status = "active"
                  /\ positions_db'[last'.pid].earned_yield = 0
                  /\ positions_db'[last'.pid].apy
                       = (IF last'.arg \in DOMAIN supply_apy
                          THEN supply_apy[last'.arg] ELSE 0)
       /\ \A p \in DOMAIN positions_db :
             /\ p \in DOMAIN positions_db'
             /\ positions_db'[p].apy = positions_db[p].apy]_vars

\* C19: every stored position has deposited_amount > 0; a deposit of a zero or
\* negative amount is rejected and stores no position.
C19_DepositPositive ==
    \A p \in DOMAIN positions_db : positions_db[p].deposited_amount > 0

\* C20: position identifiers are unique: every successful openPosition adds
\* exactly one record to the position table and leaves every stored position
\* as it was, whatever suffix the identifier generator draws.
C20_PositionIdsUnique ==
    [][(Serves("deposit") /\ last'.status = "ok")
       => /\ Cardinality(DOMAIN positions_db')
               = Cardinality(DOMAIN positions_db) + 1
          /\ \A p \in DOMAIN positions_db :
                p \in DOMAIN positions_db' /\ positions_db'[p] = positions_db[p]]_vars

\* C21: a wallet is registered on first reference by create-wallet or verify,
\* with balance 0, collateral_ratio 0, kyc_tier none and kyc_verified false
\* (before verify applies its update); mint, redeem and openPosition on an
\* unknown address fail with NotFound and register nothing; create-wallet on an
\* existing address resets no field; the set of wallet addresses only grows.
C21_WalletLifecycle ==
    [][/\ DOMAIN wallets_db \subseteq DOMAIN wallets_db'
       /\ \A a \in DOMAIN wallets_db' \ DOMAIN wallets_db :
             /\ nreq' = nreq + 1 /\ last'.addr = a
             /\ \/ /\ last'.op = "create_wallet"
                   /\ wallets_db'[a] = Wallet(a)
                \/ /\ last'.op = "verify_kyc"
                   /\ wallets_db'[a] = [Wallet(a) EXCEPT !.kyc_verified = TRUE,
                                                         !.kyc_tier = last'.arg]
       /\ \A a \in Addresses \ DOMAIN wallets_db :
             /\ (Serves("create_wallet") /\ last'.addr = a)
                => a \in DOMAIN wallets_db'
             /\ (Serves("verify_kyc") /\ last'.addr = a)
                => a \in DOMAIN wallets_db'
             /\ ((Serves("mint") \/ Serves("redeem") \/ Serves("deposit"))
                   /\ last'.addr = a)
                => last'.status = "NotFound" /\ UNCHANGED ledgerVars
       /\ (Serves("create_wallet") /\ last'.addr \in DOMAIN wallets_db)
          => wallets_db' = wallets_db]_vars

\* a deposit to an address never registered was refused and left it
\* unregistered, while the other wallet holds a balance
C21_Witness ==
    /\ last.op = "deposit" /\ last.status = "NotFound"
    /\ last.addr \notin DOMAIN wallets_db
    /\ \E b \in DOMAIN wallets_db : wallets_db[b].balance > 0

\* C22: no ledger operation (create-wallet, verify, mint, redeem,
\* openPosition) changes any wallet's collateral_ratio; hence, from an empty
\* ledger and with nothing outside these operations setting the ratio, no
\* mint ever succeeds and every wallet's balance is 0 in every reachable state.
C22_NoMintWithoutCollateral ==
    /\ [][\A a \in DOMAIN wallets_db :
             wallets_db'[a].collateral_ratio = wallets_db[a].collateral_ratio]_vars
    /\ [](/\ \A a \in DOMAIN wallets_db :
                /\ wallets_db[a].collateral_ratio = 0
                /\ wallets_db[a].balance = 0
          /\ last.op = "mint" => last.status # "ok")

\* a wallet verified at tier full asked twice to mint 100 and was refused for
\* its collateral both times
C22_Witness ==
    /\ last.op = "mint" /\ last.again /\ last.amount = 100
    /\ last.status = "InsufficientCollateral"
    /\ wallets_db[last.addr].kyc_tier = "full"
    /\ wallets_db[last.addr].collateral_ratio = 0

\* C23: listing the yield positions of a wallet returns exactly the positions
\* that wallet opened: never a position opened by another address (addresses
\* sharing their first 8 characters included), and every one of its own.
C23_ListingIsOwn ==
    last.op = "positions"
    => last.ret = {x[2] : x \in {y \in opened : y[1] = last.addr}}

===========================================================================
